---- MODULE Spec2Model ----
(***************************************************************************)
(* A model of src/bot.py: the TwitterNewsBot pipeline (fetch news,          *)
(* summarise, format the tweet text, acquire media, publish).               *)
(*                                                                          *)
(* Text is a sequence of characters, one token per Python code point, so    *)
(* that len(), slicing, strip() and startswith() are computed as Python     *)
(* computes them.  The source holds its markers as mis-decoded UTF-8; each  *)
(* code point of such a marker is its own token here:                       *)
(*   "n1".."n4" the four code points of the news marker before its space,   *)
(*   "A1"       the code point U+00E2 that starts both bullet markers,      *)
(*   "E2","C3"  the rest of the bullet the summary parser looks for,        *)
(*   "D2","C4"  the rest of the bullet build_tweet_text writes.             *)
(* Python's None is the value None.                                         *)
(***************************************************************************)
EXTENDS Integers, Sequences, FiniteSets, TLC

VARIABLES
    pc,           \* position of run(): start, fetched, summarized, formatted, media,
                  \* done, or blocked (waiting for a result that never comes)
    opts,         \* run's options after opts.update(options)
    config,       \* self.config entries the pipeline reads
    launch,       \* the module's global launch: pyppeteer's, or None (not installed)
    loop,         \* the event loop running in the calling thread (None: none)
    now,          \* the clock, in whole seconds: int(datetime.utcnow().timestamp())
    peer,         \* another invocation of run in the same process: its position
                  \* and its media_path
    news_items,   \* run's news_items
    headline,     \* headline returned by summarize_news
    key_points,   \* key points returned by summarize_news
    tweet_text,   \* text returned by build_tweet_text
    format_used,  \* tier returned by build_tweet_text
    media_path,   \* run's media_path
    files,        \* the paths that exist in the temp directory
    log,          \* the outbound calls made so far, in order, with their outcomes
    result,       \* the record run returned (NoRecord until it returns)
    raised        \* the exception that escaped run (None if none)

vars == <<pc, opts, config, launch, loop, now, peer, news_items, headline, key_points, tweet_text,
          format_used, media_path, files, log, result, raised>>

None == "None"

(***************************************************************************)
(* Bounds of the model.                                                     *)
(***************************************************************************)
MaxHeadLen == 282      \* headlines of 0..MaxHeadLen characters
MaxPad == 1            \* blanks before a headline
MaxPoints == 4         \* key-point lists of 0..MaxPoints elements
PointUnit == 100       \* a key point has 0 or PointUnit characters
MaxNews == 5           \* news lists of 0..MaxNews items
MaxTextLen == 284      \* texts handed to post_tweet have 0..MaxTextLen characters
ShortUrlLen == 40      \* the short hosted URL
MinLongUrl == 274      \* long hosted URLs have MinLongUrl..MaxUrlLen characters
MaxUrlLen == 282
MaxShotNews == 2       \* generate_screenshot is given 1..MaxShotNews news items
MaxGrow == 1           \* a second headline is compared within MaxGrow characters

(***************************************************************************)
(* Python str helpers.                                                      *)
(***************************************************************************)
Rep(c, n) == [i \in 1..n |-> c]

WHITESPACE == {" ", "\n"}

MinOf(S) == CHOOSE x \in S : \A y \in S : x <= y

RECURSIVE first_kept(_, _, _)
\* the first index from i on whose character is not in chars (Len(s) + 1 if none)
first_kept(s, chars, i) ==
    IF i > Len(s) THEN i
    ELSE IF s[i] \notin chars THEN i ELSE first_kept(s, chars, i + 1)

RECURSIVE last_kept(_, _, _)
\* the last index up to i whose character is not in chars (0 if none)
last_kept(s, chars, i) ==
    IF i < 1 THEN 0
    ELSE IF s[i] \notin chars THEN i ELSE last_kept(s, chars, i - 1)

\* s.strip(chars): drop the leading and trailing characters that are in chars
strip_chars(s, chars) ==
    SubSeq(s, first_kept(s, chars, 1), last_kept(s, chars, Len(s)))

\* s.strip()
strip(s) == strip_chars(s, WHITESPACE)

\* s.startswith(prefix)
startswith(s, prefix) ==
    Len(s) >= Len(prefix) /\ SubSeq(s, 1, Len(prefix)) = prefix

\* s[:n] for any integer n (a negative n counts from the end)
slice_to(s, n) ==
    IF n >= 0
    THEN SubSeq(s, 1, IF n < Len(s) THEN n ELSE Len(s))
    ELSE SubSeq(s, 1, IF Len(s) + n > 0 THEN Len(s) + n ELSE 0)

\* xs[a:b] for 0 <= a <= b
slice(xs, a, b) == SubSeq(xs, a + 1, IF b < Len(xs) THEN b ELSE Len(xs))

RECURSIVE join(_, _)
\* sep.join(parts)
join(sep, parts) ==
    IF parts = <<>> THEN <<>>
    ELSE IF Len(parts) = 1 THEN parts[1]
    ELSE parts[1] \o sep \o join(sep, Tail(parts))

(***************************************************************************)
(* build_tweet_text                                                         *)
(***************************************************************************)
NEWS_MARK == <<"n1", "n2", "n3", "n4", " ">>

POINT_MARK == <<"A1", "D2", "C4", " ">>

NL2 == <<"\n", "\n">>

FULL_LIMIT == 260

TWEET_LIMIT == 280

full_format(h, kp) ==
    NEWS_MARK \o h \o NL2
        \o join(<<"\n">>, [i \in 1..Len(kp) |-> POINT_MARK \o kp[i]]) \o NL2

\* the abbreviated form with every key point in it
abbreviated_all_points(h, kp) == full_format(h, kp)

abbreviated(h, kp) ==
    NEWS_MARK \o h \o NL2
        \o (IF kp # <<>> THEN POINT_MARK \o kp[1] ELSE <<>>) \o NL2

minimal(h) == NEWS_MARK \o h \o NL2

\* build_tweet_text without the key_points[:3] of line 882
build_tweet_text_all_points(headline_in, key_points_in) ==
    LET kp == key_points_in
        h == strip(headline_in)
    IN  IF Len(full_format(h, kp)) <= FULL_LIMIT
        THEN [text |-> strip(full_format(h, kp)), tier |-> "full"]
        ELSE IF Len(abbreviated(h, kp)) <= TWEET_LIMIT
        THEN [text |-> strip(abbreviated(h, kp)), tier |-> "abbreviated"]
        ELSE [text |-> strip(minimal(h)), tier |-> "minimal"]

\* build_tweet_text with the abbreviated form tested before the full one
build_tweet_text_abbreviated_first(headline_in, key_points_in) ==
    LET kp == slice(key_points_in, 0, 3)
        h == strip(headline_in)
    IN  IF Len(abbreviated(h, kp)) <= TWEET_LIMIT
        THEN [text |-> strip(abbreviated(h, kp)), tier |-> "abbreviated"]
        ELSE IF Len(full_format(h, kp)) <= FULL_LIMIT
        THEN [text |-> strip(full_format(h, kp)), tier |-> "full"]
        ELSE [text |-> strip(minimal(h)), tier |-> "minimal"]

\* build_tweet_text with the length test of the abbreviated form inverted
build_tweet_text_inverted_test(headline_in, key_points_in) ==
    LET kp == slice(key_points_in, 0, 3)
        h == strip(headline_in)
    IN  IF Len(full_format(h, kp)) <= FULL_LIMIT
        THEN [text |-> strip(full_format(h, kp)), tier |-> "full"]
        ELSE IF Len(abbreviated(h, kp)) > TWEET_LIMIT
        THEN [text |-> strip(abbreviated(h, kp)), tier |-> "abbreviated"]
        ELSE [text |-> strip(minimal(h)), tier |-> "minimal"]

build_tweet_text(headline_in, key_points_in) ==
    LET kp == slice(key_points_in, 0, 3)
        h == strip(headline_in)
    IN  IF Len(full_format(h, kp)) <= FULL_LIMIT
        THEN [text |-> strip(full_format(h, kp)), tier |-> "full"]
        ELSE IF Len(abbreviated(h, kp)) <= TWEET_LIMIT
        THEN [text |-> strip(abbreviated(h, kp)), tier |-> "abbreviated"]
        ELSE [text |-> strip(minimal(h)), tier |-> "minimal"]

(***************************************************************************)
(* summarize_news                                                           *)
(***************************************************************************)
HEADLINE_TAG == <<"H", "E", "A", "D", "L", "I", "N", "E", ":">>

BULLET == <<"A1", "E2", "C3">>

BULLET_STRIP == {"A1", "E2", "C3", " "}

DEFAULT_HEADLINE ==
    <<"L", "a", "t", "e", "s", "t", " ", "n", "e", "w", "s", " ",
      "u", "p", "d", "a", "t", "e">>

STAY_INFORMED ==
    <<"S", "t", "a", "y", " ", "i", "n", "f", "o", "r", "m", "e", "d">>

RECURSIVE splitlines(_)
\* s.splitlines(): the lines of s, without the line breaks
splitlines(s) ==
    IF s = <<>> THEN <<>>
    ELSE LET nl == {i \in 1..Len(s) : s[i] = "\n"}
         IN  IF nl = {} THEN <<s>>
             ELSE <<SubSeq(s, 1, MinOf(nl) - 1)>>
                      \o splitlines(SubSeq(s, MinOf(nl) + 1, Len(s)))

titles(items) == [i \in 1..Len(items) |-> items[i].title]

RECURSIVE parse_headline(_, _)
\* the headline the loop over the lines ends with, starting from h
parse_headline(lines, h) ==
    IF lines = <<>> THEN h
    ELSE IF startswith(Head(lines), HEADLINE_TAG)
    THEN parse_headline(Tail(lines),
             strip(SubSeq(Head(lines), Len(HEADLINE_TAG) + 1, Len(Head(lines)))))
    ELSE parse_headline(Tail(lines), h)

RECURSIVE parse_points(_)
\* the key points the loop over the lines collects
parse_points(lines) ==
    IF lines = <<>> THEN <<>>
    ELSE IF ~startswith(Head(lines), HEADLINE_TAG)
            /\ startswith(strip(Head(lines)), BULLET)
    THEN <<strip_chars(Head(lines), BULLET_STRIP)>> \o parse_points(Tail(lines))
    ELSE parse_points(Tail(lines))

\* the except OpenAIError branch
error_fallback(items) ==
    [raised |-> None,
     headline |-> items[1].title,
     key_points |-> IF slice(titles(items), 1, 4) # <<>>
                    THEN slice(titles(items), 1, 4)
                    ELSE <<STAY_INFORMED>>]

\* the titles stand in only when neither a headline nor a bullet was parsed
parse_summary_joint(items, content) ==
    LET lines == splitlines(content)
        h == parse_headline(lines, <<>>)
        kp == parse_points(lines)
    IN  IF h = <<>> /\ kp = <<>>
        THEN [raised |-> None, headline |-> items[1].title,
              key_points |-> slice(titles(items), 0, 3)]
        ELSE [raised |-> None, headline |-> h, key_points |-> slice(kp, 0, 3)]

\* the code after the try block, for the content the call returned
parse_summary(items, content) ==
    LET lines == splitlines(content)
        h == parse_headline(lines, <<>>)
        kp == parse_points(lines)
    IN  [raised |-> None,
         headline |-> IF h = <<>> THEN items[1].title ELSE h,
         key_points |-> slice(IF kp = <<>> THEN slice(titles(items), 0, 3) ELSE kp,
                              0, 3)]

\* llm is the outcome of openai_client.chat.completions.create and of reading
\* response.choices[0].message.content:
\*   kind "raise" with the exception class in exc, "no_choices" (an empty
\*   choices list), "null_content" (content is None), "content"
summarize_news(items, llm) ==
    IF items = <<>>
    THEN [raised |-> None, headline |-> DEFAULT_HEADLINE,
          key_points |-> <<STAY_INFORMED>>]
    ELSE IF llm.kind = "raise"
    THEN IF llm.exc = "OpenAIError"
         THEN error_fallback(items)
         ELSE [raised |-> llm.exc, headline |-> <<>>, key_points |-> <<>>]
    ELSE IF llm.kind = "no_choices"
    THEN [raised |-> "IndexError", headline |-> <<>>, key_points |-> <<>>]
    ELSE parse_summary(items, IF llm.kind = "null_content" THEN <<>> ELSE llm.content)

(***************************************************************************)
(* Outbound calls and optional values.                                      *)
(* An Optional[str] whose length matters is <<>> for None and <<s>> for the *)
(* string s.  A log entry is an outbound call: its name, the text handed   *)
(* to it and its outcome (what it returned, or the exception it raised).    *)
(***************************************************************************)
NoneT == <<>>

Some(s) == <<s>>

\* Python truthiness of an Optional[str]: neither None nor ""
truthy(o) == o # NoneT /\ o[1] # <<>>

Call(op, arg, out) == [op |-> op, arg |-> arg, out |-> out]

(***************************************************************************)
(* upload_to_uploadme and post_tweet                                        *)
(***************************************************************************)
ELLIPSIS == <<".", ".", ".">>

\* host: what the image host's response yields (NoneT for a failed request,
\* an exception or a payload without a URL)
upload_to_uploadme(path, fs, api_key, host) ==
    IF api_key = None \/ path \notin fs
    THEN [url |-> NoneT, calls |-> <<>>]
    ELSE [url |-> host, calls |-> <<Call("uploadme.post", <<>>, host)>>]

\* the text cut to the room beside the URL, with no room kept for the "..."
text_with_url_no_room(text, url) ==
    LET available == TWEET_LIMIT - Len(url) - 1
    IN  (IF Len(text) > available
         THEN slice_to(text, available) \o ELLIPSIS
         ELSE text) \o <<"\n">> \o url

\* lines 859-862: the text with the hosted URL appended
text_with_url(text, url) ==
    LET available == TWEET_LIMIT - Len(url) - 1
    IN  (IF Len(text) > available
         THEN slice_to(text, available - 3) \o ELLIPSIS
         ELSE text) \o <<"\n">> \o url

\* lines 869-876: the text-only post that ends post_tweet
post_text_only(final_text, image_url, fs, calls, oc) ==
    IF oc.create_text = "ok"
    THEN [raised |-> None,
          record |-> [success |-> TRUE, tweetId |-> "id_text",
                      tweetText |-> final_text, imageUrl |-> image_url],
          files |-> fs,
          calls |-> calls \o <<Call("create_tweet", final_text, oc.create_text)>>]
    ELSE [raised |-> oc.create_text,
          record |-> [pending |-> TRUE],
          files |-> fs,
          calls |-> calls \o <<Call("create_tweet", final_text, oc.create_text)>>]

\* a try block that ends in an exception although both calls returned
media_attempt_raises_after_post(oc) ==
    IF oc.upload # "ok" THEN oc.upload ELSE
    IF oc.create_media # "ok" THEN oc.create_media ELSE "Exception"

\* the exception the try block of lines 841-853 ends with (None: it returned)
media_attempt(oc) ==
    IF oc.upload # "ok" THEN oc.upload ELSE
    IF oc.create_media # "ok" THEN oc.create_media ELSE None

media_calls(text, path, oc) ==
    <<Call("media_upload", path, oc.upload)>>
        \o (IF oc.upload = "ok"
            THEN <<Call("create_tweet_media", text, oc.create_media)>> ELSE <<>>)

\* a path is taken for an asset without looking for the file
has_asset_unchecked(path, fs) == path # None

\* line 840: if media_path and Path(media_path).exists()
has_asset(path, fs) == path # None /\ path \in fs

\* post_tweet without the unlink of line 867 (the file is kept when the media
\* attempt ends in an exception other than Forbidden)
post_tweet_keeps_file(text, path, fs, api_key, oc) ==
    IF path = None \/ path \notin fs
    THEN post_text_only(text, NoneT, fs, <<>>, oc)
    ELSE IF media_attempt(oc) = None
    THEN [raised |-> None,
          record |-> [success |-> TRUE, tweetId |-> "id_media",
                      tweetText |-> text, imageUrl |-> NoneT],
          files |-> fs \ {path},
          calls |-> media_calls(text, path, oc)]
    ELSE IF media_attempt(oc) = "Forbidden"
    THEN LET up == upload_to_uploadme(path, fs, api_key, oc.host)
         IN  post_text_only(
                 IF truthy(up.url) THEN text_with_url(text, up.url[1]) ELSE text,
                 up.url, fs \ {path}, media_calls(text, path, oc) \o up.calls, oc)
    ELSE post_text_only(text, NoneT, fs, media_calls(text, path, oc), oc)

\* oc: the outcome of each collaborator, should post_tweet call it:
\*   upload, create_media, create_text: "ok", "Forbidden" or "Exception";
\*   host: the Optional URL of the image host
post_tweet(text, path, fs, api_key, oc) ==
    IF ~has_asset(path, fs)
    THEN post_text_only(text, NoneT, fs, <<>>, oc)
    ELSE IF media_attempt(oc) = None
    THEN [raised |-> None,
          record |-> [success |-> TRUE, tweetId |-> "id_media",
                      tweetText |-> text, imageUrl |-> NoneT],
          files |-> fs \ {path},
          calls |-> media_calls(text, path, oc)]
    ELSE IF media_attempt(oc) = "Forbidden"
    THEN LET up == upload_to_uploadme(path, fs, api_key, oc.host)
         IN  post_text_only(
                 IF truthy(up.url) THEN text_with_url(text, up.url[1]) ELSE text,
                 up.url, fs \ {path}, media_calls(text, path, oc) \o up.calls, oc)
    ELSE post_text_only(text, NoneT, fs \ {path}, media_calls(text, path, oc), oc)

(***************************************************************************)
(* Media acquisition: generate_ai_image, _download_chart_image,             *)
(* _capture_screenshot, generate_screenshot                                 *)
(***************************************************************************)
\* int(datetime.utcnow().timestamp()) in a file name: ts is in whole seconds
overlay_path(ts) == "news_overlay_inter_" \o ToString(ts) \o ".png"

chart_path(symbol, ts) == "chart_" \o symbol \o "_" \o ToString(ts) \o ".png"

screenshot_path(ts) == "screenshot_" \o ToString(ts) \o ".png"

\* ai: "ok" (a font variation was drawn and saved) or "none" (every one failed)
generate_ai_image(fs, ts, ai) ==
    IF ai = "ok"
    THEN [raised |-> None, path |-> overlay_path(ts),
          files |-> fs \cup {overlay_path(ts)},
          calls |-> <<Call("generate_ai_image", <<>>, ai)>>]
    ELSE [raised |-> None, path |-> None, files |-> fs,
          calls |-> <<Call("generate_ai_image", <<>>, ai)>>]

\* what requests.get gives _download_chart_image, other than a chart:
\*   "exception" it raises            "status" a status other than 200
\*   "empty"     no content           "small"  at most 1000 bytes
ChartFailures == {"exception", "status", "empty", "small"}

\* chart: "ok" (status 200 and more than 1000 bytes) or one of ChartFailures
download_chart_image(symbol, fs, ts, chart) ==
    IF chart = "ok"
    THEN [raised |-> None, path |-> chart_path(symbol, ts),
          files |-> fs \cup {chart_path(symbol, ts)},
          calls |-> <<Call("chart.get", symbol, chart)>>]
    ELSE [raised |-> None, path |-> None, files |-> fs,
          calls |-> <<Call("chart.get", symbol, chart)>>]

(***************************************************************************)
(* The ticker symbol of generate_screenshot.                                *)
(***************************************************************************)
LOWERCASE ==
    <<"a", "b", "c", "d", "e", "f", "g", "h", "i", "j", "k", "l", "m",
      "n", "o", "p", "q", "r", "s", "t", "u", "v", "w", "x", "y", "z">>

UPPERCASE ==
    <<"A", "B", "C", "D", "E", "F", "G", "H", "I", "J", "K", "L", "M",
      "N", "O", "P", "Q", "R", "S", "T", "U", "V", "W", "X", "Y", "Z">>

\* each letter of the alphabet from, mapped to the letter at its place in to
case_map(from, to) ==
    [c \in {from[i] : i \in 1..Len(from)} |->
        to[CHOOSE i \in 1..Len(from) : from[i] = c]]

TO_UPPER == case_map(LOWERCASE, UPPERCASE)

TO_LOWER == case_map(UPPERCASE, LOWERCASE)

\* s.upper()
str_upper(s) ==
    [i \in 1..Len(s) |-> IF s[i] \in DOMAIN TO_UPPER THEN TO_UPPER[s[i]] ELSE s[i]]

\* s.lower()
str_lower(s) ==
    [i \in 1..Len(s) |-> IF s[i] \in DOMAIN TO_LOWER THEN TO_LOWER[s[i]] ELSE s[i]]

\* sub in s
contains(s, sub) ==
    \E i \in 0..(Len(s) - Len(sub)) : SubSeq(s, i + 1, i + Len(sub)) = sub

Sym(name, chars) == [name |-> name, chars |-> chars]

\* lines 48-59
CRYPTO_SYMBOLS ==
    <<Sym("BTC", <<"B", "T", "C">>), Sym("ETH", <<"E", "T", "H">>),
      Sym("SOL", <<"S", "O", "L">>), Sym("XRP", <<"X", "R", "P">>),
      Sym("ADA", <<"A", "D", "A">>), Sym("DOT", <<"D", "O", "T">>),
      Sym("MATIC", <<"M", "A", "T", "I", "C">>),
      Sym("LINK", <<"L", "I", "N", "K">>), Sym("UNI", <<"U", "N", "I">>),
      Sym("AVAX", <<"A", "V", "A", "X">>)>>

\* line 61
COINGECKO_IDS ==
    <<Sym("bitcoin", <<"b", "i", "t", "c", "o", "i", "n">>),
      Sym("ethereum", <<"e", "t", "h", "e", "r", "e", "u", "m">>),
      Sym("solana", <<"s", "o", "l", "a", "n", "a">>),
      Sym("ripple", <<"r", "i", "p", "p", "l", "e">>),
      Sym("cardano", <<"c", "a", "r", "d", "a", "n", "o">>)>>

RECURSIVE first_in(_, _, _)
\* the inner loop (lines 745-748, 775-778): the first symbol of the table,
\* from entry i on, that occurs in combined (None when none does)
first_in(combined, table, i) ==
    IF i > Len(table) THEN None
    ELSE IF contains(combined, table[i].chars) THEN table[i].name
    ELSE first_in(combined, table, i + 1)

\* f"{item['title']} {item['description']}"
combined_text(item) == item.title \o <<" ">> \o item.description

\* lines 745-748: the symbol after the inner loop ran on an item
\* (found: what it found, None for nothing)
symbol_after(found, symbol) == IF found # None THEN found ELSE symbol

\* lines 744-748 for one item
chart_symbol_in(item, symbol) ==
    symbol_after(first_in(str_upper(combined_text(item)), CRYPTO_SYMBOLS, 1), symbol)

RECURSIVE chart_symbol_from(_, _, _)
\* lines 743-750, from item i on, with the symbol found so far
chart_symbol_from(items, i, symbol) ==
    IF i > Len(items) THEN symbol
    ELSE IF chart_symbol_in(items[i], symbol) # "BTC"
    THEN chart_symbol_in(items[i], symbol)
    ELSE chart_symbol_from(items, i + 1, chart_symbol_in(items[i], symbol))

\* lines 742-750
chart_symbol(items) == chart_symbol_from(items, 1, "BTC")

\* lines 774-778 for one item
ticker_symbol_in(item, symbol) ==
    symbol_after(first_in(str_lower(combined_text(item)), COINGECKO_IDS, 1), symbol)

RECURSIVE ticker_symbol_from(_, _, _)
\* lines 773-780, from item i on, with the symbol found so far
ticker_symbol_from(items, i, symbol) ==
    IF i > Len(items) THEN symbol
    ELSE IF ticker_symbol_in(items[i], symbol) # "bitcoin"
    THEN ticker_symbol_in(items[i], symbol)
    ELSE ticker_symbol_from(items, i + 1, ticker_symbol_in(items[i], symbol))

\* lines 772-780
ticker_symbol(items) == ticker_symbol_from(items, 1, "bitcoin")

(***************************************************************************)
(* _capture_screenshot.  A selector is a text whose tokens are the          *)
(* candidates, the commas and the blanks between them.                      *)
(***************************************************************************)
\* line 765
CHART_SELECTOR ==
    <<".cmc-chart-container", ",", " ", ".price-chart-container", ",", " ", "canvas">>

\* line 787
TICKER_SELECTOR == <<".gecko-coin-detail-header">>

\* line 795
ARTICLE_SELECTOR ==
    <<"article", ",", " ", "main", ",", " ", ".article-content", ",", " ",
      ".post-content">>

RECURSIVE split(_, _)
\* s.split(sep) when the first sep of s is at place k
split_at(s, sep, k) ==
    <<SubSeq(s, 1, k - 1)>> \o split(SubSeq(s, k + 1, Len(s)), sep)

\* s.split(sep) for a one-character sep
split(s, sep) ==
    IF \A i \in 1..Len(s) : s[i] # sep THEN <<s>>
    ELSE split_at(s, sep, MinOf({i \in 1..Len(s) : s[i] = sep}))

\* [s.strip() for s in parts]
strip_each(parts) == [i \in 1..Len(parts) |-> strip(parts[i])]

\* line 621: [s.strip() for s in selector.split(",")]
selector_list(selector) == strip_each(split(selector, ","))

\* every candidate is probed, and the last visible one is kept
RECURSIVE probe_all(_, _, _)
probe_all(selectors, visible, i) ==
    IF i > Len(selectors) THEN [found |-> 0, calls |-> <<>>]
    ELSE LET rest == probe_all(selectors, visible, i + 1)
         IN  [found |-> IF rest.found # 0 THEN rest.found
                        ELSE IF i \in visible THEN i ELSE 0,
              calls |-> <<Call("waitForSelector", selectors[i],
                               IF i \in visible THEN "visible" ELSE "timeout")>>
                            \o rest.calls]

\* lines 630-632: the candidate timed out and the loop went on to rest
probe_next(candidate, rest) ==
    [found |-> rest.found,
     calls |-> <<Call("waitForSelector", candidate, "timeout")>> \o rest.calls]

RECURSIVE probe(_, _, _)
\* lines 623-632: the candidates are waited for in turn, from the i-th on;
\* visible holds the places of those that become visible in time.
\* found is the place of the candidate the loop stopped at (0: none)
probe(selectors, visible, i) ==
    IF i > Len(selectors) THEN [found |-> 0, calls |-> <<>>]
    ELSE IF i \in visible
    THEN [found |-> i,
          calls |-> <<Call("waitForSelector", selectors[i], "visible")>>]
    ELSE probe_next(selectors[i], probe(selectors, visible, i + 1))

\* line 627: selector = sel for the candidate the loop stopped at; the
\* selector is left as it was when the loop stopped at none
probed_selector(selector, p) ==
    [selector |-> IF p.found # 0
                  THEN selector_list(selector)[p.found] ELSE selector,
     calls |-> p.calls]

\* lines 618-636: the selector after the probing and the waits made
\* (a selector that is None or empty is not probed)
probed(selector, visible) ==
    IF selector = <<>> THEN [selector |-> <<>>, calls |-> <<>>]
    ELSE probed_selector(selector, probe(selector_list(selector), visible, 1))

\* lines 644-668: the element-scoped capture.  sc.element is what
\* querySelector and the measuring of the box give for the selector:
\*   "none" no element, "zero" an element with no width or height,
\*   "sized" an element with both, "exception" one of the two raises;
\* sc.eshot is what element.screenshot does: "ok" or "exception"
element_capture(selector, sc) ==
    IF selector = <<>>
    THEN [taken |-> FALSE, calls |-> <<>>]
    ELSE [taken |-> sc.element = "sized" /\ sc.eshot = "ok",
          calls |-> <<Call("querySelector", selector, sc.element)>>
                        \o (IF sc.element = "sized"
                            THEN <<Call("element.screenshot", selector, sc.eshot)>>
                            ELSE <<>>)]

\* lines 638-684: the capture and the test of the file, with pr what the
\* probing left and el what the element-scoped capture did.
\* sc.pshot: page.screenshot is "ok" or raises ("exception");
\* sc.file: the file the capture wrote is "ok" (at least 1000 bytes),
\*          "small" (fewer) or "nofile" (missing)
page_result(url, fs, ts, sc, pr, el) ==
    LET captured == el.taken \/ sc.pshot = "ok"
        written == captured /\ sc.file \in {"ok", "small"}
    IN  [path |-> IF captured /\ sc.file = "ok" THEN screenshot_path(ts) ELSE None,
         files |-> IF written THEN fs \cup {screenshot_path(ts)} ELSE fs,
         calls |-> <<Call("goto", url, "ok")>> \o pr.calls \o el.calls
                       \o (IF el.taken THEN <<>>
                           ELSE <<Call("page.screenshot", <<>>, sc.pshot)>>)]

\* lines 638-684, with pr what the probing left
page_after_probe(url, fs, ts, sc, pr) ==
    page_result(url, fs, ts, sc, pr, element_capture(pr.selector, sc))

\* lines 601-688: what happens between the launch and the finally clause.
\* sc.goto: "ok" or "timeout" (the navigation raises)
page_capture(url, selector, fs, ts, sc) ==
    IF sc.goto # "ok"
    THEN [path |-> None, files |-> fs, calls |-> <<Call("goto", url, sc.goto)>>]
    ELSE page_after_probe(url, fs, ts, sc, probed(selector, sc.visible))

\* the browser is left open when the capture did not yield a path
close_on_success(page) ==
    IF page.path # None THEN <<Call("browser.close", <<>>, "ok")>> ELSE <<>>

\* lines 689-691: finally
close_browser(page) == <<Call("browser.close", <<>>, "ok")>>

\* lines 587-691 once launch() returned: the page, then the finally clause
launched(page) ==
    [raised |-> None, path |-> page.path, files |-> page.files,
     calls |-> <<Call("launch", <<>>, "ok")>> \o page.calls \o close_browser(page)]

\* sc.pyppeteer: whether launch was imported (launch is not None);
\* sc.chromium: whether an executable was found;
\* sc.launch: "ok", or "Exception" (launch() raises; it is called before the
\*            try block)
capture_screenshot(url, selector, fs, ts, sc) ==
    IF ~sc.pyppeteer \/ ~sc.chromium
    THEN [raised |-> None, path |-> None, files |-> fs, calls |-> <<>>]
    ELSE IF sc.launch # "ok"
    THEN [raised |-> sc.launch, path |-> None, files |-> fs,
          calls |-> <<Call("launch", <<>>, sc.launch)>>]
    ELSE launched(page_capture(url, selector, fs, ts, sc))

\* lines 798-809: with a loop running in the calling thread, the capture is
\* scheduled on that loop and the thread blocks in result(); the coroutine
\* waits for the loop, which is the blocked thread, so it never starts.
\* Without one, asyncio.run runs the capture to its end
run_capture(url, selector, fs, ts, sc) ==
    IF sc.loop_running
    THEN [raised |-> None, path |-> None, files |-> fs,
          calls |-> <<Call("run_coroutine_threadsafe", url, "scheduled"),
                      Call("future.result", <<>>, "never")>>]
    ELSE capture_screenshot(url, selector, fs, ts, sc)

\* a chart image is never taken for downloaded
chart_downloaded_never(dl) == FALSE

\* line 755: if chart_image
chart_downloaded(dl) == dl.path # None

\* what r did, after the calls made before it
after(calls, r) == [r EXCEPT !.calls = calls \o r.calls]

\* lines 755-769, 798-809: the downloaded chart, or else the capture of the
\* chart page (dl: what _download_chart_image did)
chart_or_capture(symbol, dl, ts, sc) ==
    IF chart_downloaded(dl) THEN dl
    ELSE IF ~sc.pyppeteer THEN [dl EXCEPT !.path = None]
    ELSE after(dl.calls,
               run_capture(<<"coinmarketcap", symbol>>, CHART_SELECTOR,
                           dl.files, ts, sc))

\* lines 752-769 for the symbol the scan chose
chart_screenshot(symbol, fs, ts, sc) ==
    chart_or_capture(symbol, download_chart_image(symbol, fs, ts, sc.chart), ts, sc)

\* lines 740-809, after the call was logged
screenshot_for(items, target, fs, ts, sc) ==
    IF target \in {None, "", "crypto-chart"}
    THEN chart_screenshot(chart_symbol(items), fs, ts, sc)
    ELSE IF ~sc.pyppeteer
    THEN [raised |-> None, path |-> None, files |-> fs, calls |-> <<>>]
    ELSE IF target = "crypto-ticker"
    THEN run_capture(<<"coingecko", ticker_symbol(items)>>,
                            TICKER_SELECTOR, fs, ts, sc)
    ELSE run_capture(
             <<"article", IF items[1].url # <<>> THEN items[1].url
                          ELSE <<"news.ycombinator.com">>>>,
             ARTICLE_SELECTOR, fs, ts, sc)

\* the call, logged with its target and with what it returned or raised
logged_screenshot(target, r) ==
    [r EXCEPT !.calls =
        <<Call("generate_screenshot", target,
               IF r.raised # None THEN r.raised ELSE r.path)>> \o r.calls]

generate_screenshot(items, target, fs, ts, sc) ==
    logged_screenshot(target, screenshot_for(items, target, fs, ts, sc))

\* str.lower() on the image_generation_type values of the model
lower(t) ==
    IF t = "SCREENSHOT" THEN "screenshot" ELSE IF t = "Both" THEN "both" ELSE t

\* the use_openai_image_only flag is not looked at
openai_image_only_ignored(o) == FALSE

\* line 928
openai_image_only(o) == o.use_openai_image_only

\* a missing image_generation_type falls back to the configuration's default
gen_type_default_screenshot(o) ==
    lower(IF o.image_generation_type \in {None, ""}
          THEN "screenshot" ELSE o.image_generation_type)

\* line 932
gen_type_of(o) ==
    lower(IF o.image_generation_type \in {None, ""}
          THEN "ai" ELSE o.image_generation_type)

\* the screenshot is generated whatever the overlay generator returned
overlay_failed_always(img) == TRUE

\* line 938: if not media_path
overlay_failed(img) == img.path = None

\* lines 936-941: the overlay (img: what generate_ai_image did), or else the
\* screenshot
overlay_or_screenshot(o, items, ts, sc, img) ==
    IF ~overlay_failed(img) THEN img
    ELSE after(img.calls,
               generate_screenshot(items, o.screenshot_target, img.files, ts, sc))

\* lines 925-943 of run: the media_path and what acquiring it did
acquire_media(o, items, fs, ts, ai, sc) ==
    IF ~o.use_image
    THEN [raised |-> None, path |-> None, files |-> fs, calls |-> <<>>]
    ELSE IF openai_image_only(o)
    THEN generate_ai_image(fs, ts, ai)
    ELSE IF gen_type_of(o) = "screenshot"
    THEN generate_screenshot(items, o.screenshot_target, fs, ts, sc)
    ELSE IF gen_type_of(o) = "both"
    THEN overlay_or_screenshot(o, items, ts, sc, generate_ai_image(fs, ts, ai))
    ELSE generate_ai_image(fs, ts, ai)

(***************************************************************************)
(* Inputs and collaborator outcomes.                                        *)
(***************************************************************************)
NewsItem(t) == [title |-> t, description |-> t, url |-> <<"u">>, source |-> <<"s">>]

Titles == {<<>>, <<"A">>, <<"B">>}

SeqsUpTo(S, n) == UNION {[1..k -> S] : k \in 0..n}

NewsLists == SeqsUpTo({NewsItem(t) : t \in Titles}, MaxNews)

CryptoFeeds == {<<>>, <<NewsItem(<<"A">>)>>}

WorldFeeds == {<<>>, <<NewsItem(<<"B">>), NewsItem(<<>>)>>}

Raise(e) == [kind |-> "raise", exc |-> e, content |-> <<>>]

Returns(kind, c) == [kind |-> kind, exc |-> None, content |-> c]

HeadlineLine(h) == HEADLINE_TAG \o <<" ">> \o h

BulletLine(p) == BULLET \o <<" ">> \o p

Contents ==
    {<<>>,
     <<"x", "y">>,
     HeadlineLine(<<"H", "i">>),
     HeadlineLine(<<" ">>) \o <<"\n">> \o BulletLine(<<"p">>),
     <<" ">> \o HeadlineLine(<<"H", "i">>),
     join(<<"\n">>, <<BulletLine(<<"p">>), <<" ">> \o BulletLine(<<"q">>)>>),
     join(<<"\n">>, <<HeadlineLine(<<"H", "i">>), <<"K", "E", "Y">>,
                      BulletLine(<<"p">>), BulletLine(<<"q">>),
                      BulletLine(<<"r">>), BulletLine(<<"s">>)>>),
     join(<<"\n">>, <<BulletLine(<<"p">>), BulletLine(<<"q">>),
                      BulletLine(<<"r">>), BulletLine(<<"s">>)>>)}

SumLLM ==
    {Raise("OpenAIError"), Raise("Exception"),
     Returns("no_choices", <<>>), Returns("null_content", <<>>)}
        \cup {Returns("content", c) : c \in Contents}

RunLLM ==
    {Raise("OpenAIError"), Returns("no_choices", <<>>),
     Returns("content", <<"x", "y">>),
     Returns("content", join(<<"\n">>, <<HeadlineLine(<<"H", "i">>),
                                           BulletLine(<<"p">>)>>))}

Headlines == {Rep(" ", p) \o Rep("x", n) : p \in 0..MaxPad, n \in 0..MaxHeadLen}

PointLists == SeqsUpTo({<<>>, Rep("a", PointUnit)}, MaxPoints)

\* three key points of 90 characters each
ScenarioPoints == [i \in 1..3 |-> Rep("a", 90)]

\* a text of n characters that differ from place to place
Text(n) == [i \in 1..n |-> IF i % 2 = 1 THEN "t" ELSE "x"]

Texts == {Text(n) : n \in 0..MaxTextLen}

UrlLens == {0, ShortUrlLen} \cup (MinLongUrl..MaxUrlLen)

PostUrls == {NoneT} \cup {Some(Rep("u", k)) : k \in UrlLens}

RunUrls == {NoneT, Some(Rep("u", ShortUrlLen))}

TwitterOutcomes == {"ok", "Forbidden", "Exception"}

PostOutcomes(urls) ==
    [upload : TwitterOutcomes, create_media : TwitterOutcomes,
     host : urls, create_text : {"ok", "Exception"}]

\* the places a candidate can have in a selector list
Candidates == 1..Len(selector_list(ARTICLE_SELECTOR))

\* what a capture that gets as far as the page can meet; the outcome of a
\* call that is not made is left at "ok"
PageOutcomes ==
    {p \in [chromium : {TRUE}, launch : {"ok"}, goto : {"ok"},
            visible : SUBSET Candidates,
            element : {"none", "zero", "sized", "exception"},
            eshot : {"ok", "exception"}, pshot : {"ok", "exception"},
            file : {"ok", "small", "nofile"}] :
        /\ p.element # "sized" => p.eshot = "ok"
        /\ (p.element = "sized" /\ p.eshot = "ok") => p.pshot = "ok"
        /\ p.pshot = "exception" => p.file = "ok"}

\* a capture that ends before the page is up: no executable, launch() raises,
\* the navigation times out
EarlyOutcomes ==
    {[chromium |-> c, launch |-> l, goto |-> g, visible |-> {},
      element |-> "none", eshot |-> "ok", pshot |-> "ok", file |-> "ok"] :
        <<c, l, g>> \in {<<FALSE, "ok", "ok">>, <<TRUE, "Exception", "ok">>,
                         <<TRUE, "ok", "timeout">>}}

\* the page outcomes a whole run is checked with
RunPageOutcomes ==
    {p \in PageOutcomes :
        /\ p.eshot = "ok"
        /\ \/ p.visible = {1} /\ p.element = "sized" /\ p.pshot = "ok"
           \/ p.visible = {} /\ p.element = "none" /\ p.pshot = "ok"
           \/ p.visible = {} /\ p.element = "none" /\ p.pshot = "exception"
                /\ p.file = "ok"}

\* outs with the outcome of the chart download added, and whether pyppeteer
\* was imported and whether a loop runs in the calling thread; a browser
\* that cannot be started has no outcome to choose
WithChart(outs, charts, installed, running) ==
    {[chart |-> c, pyppeteer |-> installed, loop_running |-> running,
      chromium |-> p.chromium, launch |-> p.launch, goto |-> p.goto,
      visible |-> p.visible, element |-> p.element, eshot |-> p.eshot,
      pshot |-> p.pshot, file |-> p.file] :
        c \in charts,
        p \in IF installed /\ ~running THEN outs
              ELSE {q \in EarlyOutcomes : ~q.chromium}}

ScreenshotOutcomes(installed, running) ==
    WithChart(EarlyOutcomes \cup PageOutcomes, {"ok", "small"}, installed, running)

RunScreenshotOutcomes(installed, running) ==
    WithChart(EarlyOutcomes \cup RunPageOutcomes, {"ok"} \cup ChartFailures,
              installed, running)

\* lines 798-801: asyncio.get_running_loop() gives a loop, or raises
Loops == {"running", None}

NoPeer == [pc |-> "none", media_path |-> None]

\* titles that mention no symbol, BTC, ETH, and SOL before ETH
ShotTitles ==
    {<<"x">>, <<"b", "t", "c">>, <<"E", "t", "h">>,
     <<"s", "o", "l", " ", "e", "t", "h">>}

ShotNews == SeqsUpTo({NewsItem(t) : t \in ShotTitles}, MaxShotNews) \ {<<>>}

\* lines 25-28: the import of pyppeteer succeeded, or launch is None
PYPPETEER_LAUNCH == "pyppeteer.launch"

Launches == {PYPPETEER_LAUNCH, None}

GenTypes == {"screenshot", "both", "ai", "SCREENSHOT", "Both", "chart", "", None}

Targets == {"crypto-chart", "crypto-ticker", "news-article"}

Options ==
    [use_image : BOOLEAN, image_generation_type : GenTypes,
     screenshot_target : Targets, crypto_news_enabled : BOOLEAN,
     world_news_enabled : BOOLEAN, dry_run : BOOLEAN,
     use_openai_image_only : BOOLEAN]

\* lines 896-905: run's defaults
DefaultOptions ==
    [use_image |-> TRUE, image_generation_type |-> "screenshot",
     screenshot_target |-> "crypto-chart", crypto_news_enabled |-> TRUE,
     world_news_enabled |-> TRUE, dry_run |-> FALSE,
     use_openai_image_only |-> FALSE]

Configs == [uploadme_api_key : {None, "key"}]

NoRecord == [pending |-> TRUE]

(***************************************************************************)
(* run, one action per step.                                                *)
(***************************************************************************)
\* a run that goes on to summarise whatever the fetches returned
no_news_never(items) == FALSE

\* line 916: not news_items
no_news(items) == items = <<>>

\* lines 910-917
Fetch ==
    /\ pc = "start"
    /\ \E c \in CryptoFeeds, w \in WorldFeeds :
         LET items == (IF opts.crypto_news_enabled THEN c ELSE <<>>)
                          \o (IF opts.world_news_enabled THEN w ELSE <<>>)
         IN  /\ news_items' = items
             /\ log' = log
                    \o (IF opts.crypto_news_enabled
                        THEN <<Call("fetch_crypto_news", <<>>, c)>> ELSE <<>>)
                    \o (IF opts.world_news_enabled
                        THEN <<Call("fetch_world_news", <<>>, w)>> ELSE <<>>)
             /\ pc' = IF no_news(items) THEN "done" ELSE "fetched"
             /\ result' = IF no_news(items)
                          THEN [success |-> FALSE, error |-> "No news items found"]
                          ELSE result
    /\ UNCHANGED <<opts, config, launch, loop, now, peer, headline, key_points, tweet_text, format_used,
                   media_path, files, raised>>

\* line 919
Summarize(llms) ==
    /\ pc = "fetched"
    /\ \E llm \in llms :
         \E r \in {summarize_news(news_items, llm)} :
             /\ log' = IF news_items = <<>> THEN log
                       ELSE log \o <<Call("openai.create", <<>>, llm)>>
             /\ raised' = r.raised
             /\ headline' = r.headline
             /\ key_points' = r.key_points
             /\ pc' = IF r.raised = None THEN "summarized" ELSE "done"
    /\ UNCHANGED <<opts, config, launch, loop, now, peer, news_items, tweet_text, format_used, media_path,
                   files, result>>

\* the formatter running on what the fetches returned, before any summary
Format_before_summary ==
    /\ pc = "fetched"
    /\ tweet_text' = build_tweet_text(headline, key_points).text
    /\ format_used' = build_tweet_text(headline, key_points).tier
    /\ pc' = "formatted"
    /\ UNCHANGED <<opts, config, launch, loop, now, peer, news_items, headline, key_points, media_path,
                   files, log, result, raised>>

\* line 922
Format ==
    /\ pc = "summarized"
    /\ tweet_text' = build_tweet_text(headline, key_points).text
    /\ format_used' = build_tweet_text(headline, key_points).tier
    /\ pc' = "formatted"
    /\ UNCHANGED <<opts, config, launch, loop, now, peer, news_items, headline, key_points, media_path,
                   files, log, result, raised>>

\* the thread waits for a result that never comes
blocks(calls) == \E i \in 1..Len(calls) : calls[i].out = "never"

\* lines 925-943; outs are the outcomes the screenshot chain is given
AcquireMedia(outs) ==
    /\ pc = "formatted"
    /\ \E ai \in {"ok", "none"}, sc \in outs :
         \E m \in {acquire_media(opts, news_items, files, now, ai, sc)} :
             /\ media_path' = m.path
             /\ files' = m.files
             /\ log' = log \o m.calls
             /\ raised' = m.raised
             /\ pc' = IF m.raised # None THEN "done"
                      ELSE IF blocks(m.calls) THEN "blocked" ELSE "media"
    /\ UNCHANGED <<opts, config, launch, loop, now, peer, news_items, headline, key_points,
                   tweet_text, format_used, result>>

\* lines 945-954
DryRunReturn ==
    /\ pc = "media"
    /\ opts.dry_run
    /\ files' = IF media_path # None THEN files \ {media_path} ELSE files
    /\ result' = [success |-> TRUE, dryRun |-> TRUE, tweetText |-> tweet_text,
                  format |-> format_used]
    /\ pc' = "done"
    /\ UNCHANGED <<opts, config, launch, loop, now, peer, news_items, headline, key_points, tweet_text,
                   format_used, media_path, log, raised>>

\* lines 956-963
Publish(urls) ==
    /\ pc = "media"
    /\ ~opts.dry_run
    /\ \E oc \in PostOutcomes(urls) :
         \E p \in {post_tweet(tweet_text, media_path, files,
                               config.uploadme_api_key, oc)} :
             /\ files' = p.files
             /\ log' = log \o p.calls
             /\ raised' = p.raised
             /\ result' = IF p.raised # None THEN result
                          ELSE [success |-> p.record.success,
                                tweetId |-> p.record.tweetId,
                                tweetText |-> p.record.tweetText,
                                imageUrl |-> p.record.imageUrl,
                                headline |-> headline,
                                keyPoints |-> key_points,
                                format |-> format_used]
             /\ pc' = "done"
    /\ UNCHANGED <<opts, config, launch, loop, now, peer, news_items, headline, key_points, tweet_text,
                   format_used, media_path>>

(***************************************************************************)
(* Spec: a whole run.                                                       *)
(***************************************************************************)
Init ==
    /\ pc = "start"
    /\ opts \in Options
    /\ config \in Configs
    /\ launch \in Launches
    /\ loop \in Loops
    /\ now = 0
    /\ peer = NoPeer
    /\ news_items = <<>>
    /\ headline = <<>>
    /\ key_points = <<>>
    /\ tweet_text = <<>>
    /\ format_used = None
    /\ media_path = None
    /\ files = {}
    /\ log = <<>>
    /\ result = NoRecord
    /\ raised = None

Next ==
    \/ Fetch
    \/ Summarize(RunLLM)
    \/ Format
    \/ AcquireMedia(RunScreenshotOutcomes(launch # None, loop # None))
    \/ DryRunReturn
    \/ Publish(RunUrls)

Spec == Init /\ [][Next]_vars

(***************************************************************************)
(* SpecConc: two invocations of run() in one process, on two threads, from  *)
(* the point where both have their text.  The variables of the run are     *)
(* those of the first invocation; peer holds the position and the media    *)
(* path of the second.  Both see the same temporary directory (files) and  *)
(* the same clock (now, in whole seconds, as int(timestamp) reads it).     *)
(***************************************************************************)
MaxClock == 1

\* the clock moves on by a second
Tick ==
    /\ now < MaxClock
    /\ now' = now + 1
    /\ UNCHANGED <<pc, opts, config, launch, loop, peer, news_items, headline,
                   key_points, tweet_text, format_used, media_path, files, log,
                   result, raised>>

\* lines 925-943 in the second invocation
PeerAcquire ==
    /\ peer.pc = "formatted"
    /\ \E ai \in {"ok", "none"},
          sc \in RunScreenshotOutcomes(launch # None, loop # None) :
         \E m \in {acquire_media(opts, news_items, files, now, ai, sc)} :
             /\ files' = m.files
             /\ peer' = [pc |-> IF m.raised # None THEN "done" ELSE "media",
                         media_path |-> m.path]
    /\ UNCHANGED <<pc, opts, config, launch, loop, now, news_items, headline,
                   key_points, tweet_text, format_used, media_path, log, result,
                   raised>>

\* lines 947-948, 846, 857, 867 in the second invocation: after its dry run
\* or its publish attempt it unlinks the path it holds
PeerRelease ==
    /\ peer.pc = "media"
    /\ files' = IF peer.media_path # None THEN files \ {peer.media_path} ELSE files
    /\ peer' = [peer EXCEPT !.pc = "done"]
    /\ UNCHANGED <<pc, opts, config, launch, loop, now, news_items, headline,
                   key_points, tweet_text, format_used, media_path, log, result,
                   raised>>

InitConc ==
    /\ pc = "formatted"
    /\ opts \in {[DefaultOptions EXCEPT !.dry_run = d, !.image_generation_type = g] :
                    d \in BOOLEAN, g \in {"screenshot", "ai"}}
    /\ config = [uploadme_api_key |-> "key"]
    /\ launch = PYPPETEER_LAUNCH
    /\ loop = None
    /\ now = 0
    /\ peer = [pc |-> "formatted", media_path |-> None]
    /\ news_items = <<NewsItem(<<"A">>)>>
    /\ headline = <<"H">>
    /\ key_points = <<>>
    /\ tweet_text = NEWS_MARK \o <<"H">>
    /\ format_used = "full"
    /\ media_path = None
    /\ files = {}
    /\ log = <<>>
    /\ result = NoRecord
    /\ raised = None

NextConc ==
    \/ AcquireMedia(RunScreenshotOutcomes(launch # None, loop # None))
    \/ DryRunReturn
    \/ Publish(RunUrls)
    \/ PeerAcquire
    \/ PeerRelease
    \/ Tick

SpecConc == InitConc /\ [][NextConc]_vars

(***************************************************************************)
(* SpecLive: a whole run that is scheduled to its end.  run() is one       *)
(* synchronous call: whenever a step can be taken it is taken, so the      *)
(* steps are weakly fair.  The runs are those that ask for a screenshot    *)
(* of the chart or for an overlay.                                         *)
(***************************************************************************)
InitLive ==
    /\ Init
    /\ opts.use_image
    /\ ~opts.use_openai_image_only
    /\ opts.image_generation_type \in {"screenshot", "ai"}
    /\ opts.screenshot_target = "crypto-chart"
    /\ opts.crypto_news_enabled
    /\ ~opts.world_news_enabled
    /\ config.uploadme_api_key = "key"

SpecLive == InitLive /\ [][Next]_vars /\ WF_vars(Next)

(***************************************************************************)
(* SpecSum: summarize_news on every news list and every outcome of the      *)
(* text-generation call.                                                    *)
(***************************************************************************)
InitSum ==
    /\ pc = "fetched"
    /\ opts = DefaultOptions
    /\ config = [uploadme_api_key |-> None]
    /\ launch = PYPPETEER_LAUNCH
    /\ loop = None
    /\ now = 0
    /\ peer = NoPeer
    /\ news_items \in NewsLists
    /\ headline = <<>>
    /\ key_points = <<>>
    /\ tweet_text = <<>>
    /\ format_used = None
    /\ media_path = None
    /\ files = {}
    /\ log = <<>>
    /\ result = NoRecord
    /\ raised = None

NextSum == Summarize(SumLLM)

SpecSum == InitSum /\ [][NextSum]_vars

(***************************************************************************)
(* SpecFmt: build_tweet_text on every headline and key-point list.          *)
(***************************************************************************)
InitFmt ==
    /\ pc = "summarized"
    /\ opts = DefaultOptions
    /\ config = [uploadme_api_key |-> None]
    /\ launch = PYPPETEER_LAUNCH
    /\ loop = None
    /\ now = 0
    /\ peer = NoPeer
    /\ news_items = <<>>
    /\ headline \in Headlines
    /\ key_points \in PointLists \cup {ScenarioPoints}
    /\ tweet_text = <<>>
    /\ format_used = None
    /\ media_path = None
    /\ files = {}
    /\ log = <<>>
    /\ result = NoRecord
    /\ raised = None

NextFmt == Format

SpecFmt == InitFmt /\ [][NextFmt]_vars

(***************************************************************************)
(* SpecShot: generate_screenshot on every target, with every outcome of the *)
(* chart download and of the browser.                                       *)
(***************************************************************************)
InitShot ==
    /\ pc = "formatted"
    /\ opts \in {[DefaultOptions EXCEPT !.screenshot_target = t] :
                    t \in Targets \cup {None}}
    /\ config = [uploadme_api_key |-> None]
    /\ launch \in Launches
    /\ loop \in Loops
    /\ now = 0
    /\ peer = NoPeer
    /\ news_items \in ShotNews
    /\ headline = <<"H">>
    /\ key_points = <<>>
    /\ tweet_text = NEWS_MARK \o <<"H">>
    /\ format_used = "full"
    /\ media_path = None
    /\ files = {}
    /\ log = <<>>
    /\ result = NoRecord
    /\ raised = None

NextShot == AcquireMedia(ScreenshotOutcomes(launch # None, loop # None))

SpecShot == InitShot /\ [][NextShot]_vars

(***************************************************************************)
(* SpecPost: post_tweet on every text, with or without a media file.        *)
(***************************************************************************)
InitPost ==
    /\ pc = "media"
    /\ opts \in {[DefaultOptions EXCEPT !.use_image = u] : u \in BOOLEAN}
    /\ config \in Configs
    /\ launch = PYPPETEER_LAUNCH
    /\ loop = None
    /\ now = 0
    /\ peer = NoPeer
    /\ news_items = <<>>
    /\ headline = <<>>
    /\ key_points = <<>>
    /\ tweet_text \in Texts
    /\ format_used = "full"
    /\ media_path \in IF opts.use_image THEN {None, overlay_path(0)} ELSE {None}
    /\ files \in {{}, {overlay_path(0), chart_path("BTC", 0)}}
    /\ log = <<>>
    /\ result = NoRecord
    /\ raised = None

NextPost == Publish(PostUrls)

SpecPost == InitPost /\ [][NextPost]_vars

(***************************************************************************)
(* Claims.                                                                  *)
(***************************************************************************)
Range(f) == {f[x] : x \in DOMAIN f}

\* whether the text s ends with suffix
endswith(s, suffix) ==
    Len(s) >= Len(suffix) /\ SubSeq(s, Len(s) - Len(suffix) + 1, Len(s)) = suffix

CallsOf(op) == {i \in 1..Len(log) : log[i].op = op}

PublisherOps == {"media_upload", "create_tweet_media", "uploadme.post", "create_tweet"}

FetchOps == {"fetch_crypto_news", "fetch_world_news"}

\* the text-generation call was made and did not yield text: it raised, or
\* its response had no choices to read the text from
LLMFailed ==
    \E i \in CallsOf("openai.create") : log[i].out.kind \in {"raise", "no_choices"}

\* C1 (as claimed): the text build_tweet_text returns has at most 280
\* characters, whichever tier it selects.
C1_TextWithinLimit ==
    pc = "formatted" => Len(tweet_text) <= TWEET_LIMIT

\* C2: once post_tweet has returned or raised, the media file it was handed
\* no longer exists, on every branch.
C2_MediaFileDeleted ==
    (pc = "done" /\ media_path # None) => media_path \notin files

\* C2 witness: the media upload was forbidden, the image host gave no URL and
\* the final text-only post raised; the file is gone.
C2_Witness ==
    /\ pc = "done"
    /\ raised # None
    /\ media_path # None
    /\ media_path \notin files
    /\ \E i \in CallsOf("media_upload") : log[i].out = "Forbidden"
    /\ \E i \in CallsOf("uploadme.post") : log[i].out = NoneT

\* C3 (as claimed): run always ends by returning a record with a boolean
\* success field; no exception escapes it.  Stated for the runs that get as
\* far as the text-only create-post call, where news, summary and media
\* acquisition have all returned.
C3_RunReturnsRecord ==
    (pc = "done" /\ CallsOf("create_tweet") # {}) =>
        /\ raised = None
        /\ "success" \in DOMAIN result
        /\ result.success \in BOOLEAN

\* C4 (as claimed): when the media attempt was forbidden and the image host
\* returned a URL, the text posted has at most 280 characters and ends with
\* that URL, for every text and every URL.  Stated for the URLs that,
\* with the newline before them, fit the limit themselves.
C4_HostedUrlFits ==
    \A i \in CallsOf("uploadme.post"), j \in CallsOf("create_tweet") :
        (truthy(log[i].out) /\ Len(log[i].out[1]) < TWEET_LIMIT) =>
            /\ Len(log[j].arg) <= TWEET_LIMIT
            /\ endswith(log[j].arg, log[i].out[1])

\* C5: when the enabled categories yield no news item, run returns exactly
\* {success: false, error: "No news items found"}, having made no call but
\* the fetches; summarizer, formatter, media acquisition and publisher have
\* left no trace, and no further step is possible.
C5_NoNewsIsTheOnlyResult ==
    (pc = "done" /\ news_items = <<>>) =>
        /\ result = [success |-> FALSE, error |-> "No news items found"]
        /\ raised = None
        /\ \A i \in 1..Len(log) : log[i].op \in FetchOps
        /\ headline = <<>> /\ key_points = <<>>
        /\ tweet_text = <<>> /\ format_used = None
        /\ media_path = None /\ files = {}
        /\ ~ENABLED Next

\* C5 witness: both categories were enabled, both fetches returned nothing,
\* and run has returned.
C5_Witness ==
    /\ pc = "done"
    /\ news_items = <<>>
    /\ result = [success |-> FALSE, error |-> "No news items found"]
    /\ CallsOf("fetch_crypto_news") # {}
    /\ CallsOf("fetch_world_news") # {}

\* C6 (as claimed): a dry run with news never calls the publisher, leaves no
\* media file generated during the run on disk, and returns dryRun = true
\* with the formatted text and tier and no tweetId.
C6_DryRunLeavesNothing ==
    (pc = "done" /\ raised = None /\ opts.dry_run /\ news_items # <<>>) =>
        /\ \A i \in 1..Len(log) : log[i].op \notin PublisherOps
        /\ files = {}
        /\ result = [success |-> TRUE, dryRun |-> TRUE,
                     tweetText |-> tweet_text, format |-> format_used]

\* C7 (as claimed): for a non-empty news list, the headline summarize_news
\* returns is not empty.
C7_HeadlineNotEmpty ==
    (pc = "summarized" /\ news_items # <<>>) => headline # <<>>

\* C8 (as claimed): whatever goes wrong in the text-generation call,
\* summarize_news returns; nothing is propagated to its caller.
C8_FailureAbsorbed ==
    (pc # "fetched" /\ LLMFailed) => raised = None

\* C9 (as claimed): when the text-generation call raises, summarize_news
\* returns the first title as headline and the titles of items[1:4], or
\* ["Stay informed"] when there are fewer than 2 items, as key points.
C9_FallbackOnRaise ==
    (pc # "fetched" /\ LLMFailed /\ <<>> \notin Range(titles(news_items))) =>
        /\ raised = None
        /\ headline = news_items[1].title
        /\ key_points = IF Len(news_items) < 2 THEN <<STAY_INFORMED>>
                        ELSE SubSeq(titles(news_items), 2,
                                    IF Len(news_items) < 4 THEN Len(news_items) ELSE 4)

\* C10 (as claimed): when the returned text has neither a headline line nor
\* a bullet line, summarize_news returns the same fallback as for a raised
\* error: the first title, and the titles of items[1:4] or ["Stay informed"].
C10_UnparseableGivesErrorFallback ==
    \A i \in CallsOf("openai.create") :
        (/\ pc = "summarized"
         /\ log[i].out.kind = "content"
         /\ <<>> \notin Range(titles(news_items))
         /\ parse_headline(splitlines(log[i].out.content), <<>>) = <<>>
         /\ parse_points(splitlines(log[i].out.content)) = <<>>) =>
            /\ headline = news_items[1].title
            /\ key_points = IF Len(news_items) < 2 THEN <<STAY_INFORMED>>
                            ELSE SubSeq(titles(news_items), 2,
                                        IF Len(news_items) < 4 THEN Len(news_items)
                                        ELSE 4)

\* the publisher has not been entered: whatever was raised so far was raised
\* before post_tweet
BeforePublisher == \A i \in 1..Len(log) : log[i].op \notin PublisherOps

\* C11 (as claimed): media acquisition never raises, whatever the chart
\* download, the browser launch, the navigation, the capture and the image
\* rendering do; it returns None or the path of a file that exists when it
\* returns.  Stated for the runs in which the browser launch was attempted.
C11_MediaNeverRaises ==
    /\ (CallsOf("launch") # {} /\ BeforePublisher) => raised = None
    /\ pc = "media" => (media_path = None \/ media_path \in files)

\* the three forms build_tweet_text measures for the input of the run
FullForm == full_format(strip(headline), slice(key_points, 0, 3))

AbbreviatedForm == abbreviated(strip(headline), slice(key_points, 0, 3))

MinimalForm == minimal(strip(headline))

\* C12: the tiers are tried in the order full, abbreviated, minimal and the
\* first whose length test passes is returned: full exactly when the full
\* form has at most 260 characters, abbreviated exactly when the full form
\* has more than 260 and the abbreviated form at most 280, minimal exactly
\* when both tests fail; the text is the trimmed form of the tier.
C12_FirstFittingTier ==
    pc = "formatted" =>
        /\ format_used = "full" <=> Len(FullForm) <= FULL_LIMIT
        /\ format_used = "abbreviated" <=>
               (Len(FullForm) > FULL_LIMIT /\ Len(AbbreviatedForm) <= TWEET_LIMIT)
        /\ format_used = "minimal" <=>
               (Len(FullForm) > FULL_LIMIT /\ Len(AbbreviatedForm) > TWEET_LIMIT)
        /\ format_used = "full" => tweet_text = strip(FullForm)
        /\ format_used = "abbreviated" => tweet_text = strip(AbbreviatedForm)
        /\ format_used = "minimal" => tweet_text = strip(MinimalForm)

\* C12 witness: an input whose full form is over 260 characters while its
\* abbreviated form is shorter than the full form and within 280; the
\* abbreviated tier was returned.
C12_Witness ==
    /\ pc = "formatted"
    /\ format_used = "abbreviated"
    /\ Len(FullForm) > TWEET_LIMIT
    /\ Len(AbbreviatedForm) <= FULL_LIMIT

\* the order of the tiers: full < abbreviated < minimal
TierRank(t) == IF t = "full" THEN 1 ELSE IF t = "abbreviated" THEN 2 ELSE 3

\* the headlines a second input may have: those whose length is within
\* MaxGrow of the length of the headline of the run
NearHeadlines ==
    {h2 \in Headlines :
        Len(h2) >= Len(headline) - MaxGrow /\ Len(h2) <= Len(headline) + MaxGrow}

\* the key-point lists with as many key points as the list of the run,
\* none of them shorter than the corresponding key point of the run
LongerPointLists ==
    {kp2 \in PointLists :
        /\ Len(kp2) = Len(key_points)
        /\ \A i \in 1..Len(kp2) : Len(key_points[i]) <= Len(kp2[i])}

\* C13 (as claimed): if the headline and each key point of the input are no
\* longer than those of a second input with as many key points, the tier of
\* the input is not later than the tier of the second input.
C13_TierMonotoneInLength ==
    pc = "formatted" =>
        \A h2 \in {h \in NearHeadlines : Len(headline) <= Len(h)} :
            \A kp2 \in LongerPointLists :
                TierRank(format_used) <= TierRank(build_tweet_text(h2, kp2).tier)

\* C13 (amended): the same, with the headlines measured as build_tweet_text
\* measures them, after their leading and trailing whitespace is removed.
C13_TierMonotoneInTrimmedLength ==
    pc = "formatted" =>
        \A h2 \in {h \in NearHeadlines : Len(strip(headline)) <= Len(strip(h))} :
            \A kp2 \in LongerPointLists :
                TierRank(format_used) <= TierRank(build_tweet_text(h2, kp2).tier)

\* C13 witness: the headline of the run starts with a blank and got the full
\* tier; a second input with the same key points, whose headline is as long
\* and has no blank, gets a later tier.
C13_Witness ==
    /\ pc = "formatted"
    /\ format_used = "full"
    /\ headline # <<>> /\ headline[1] = " "
    /\ \E h2 \in NearHeadlines :
          /\ Len(h2) = Len(headline)
          /\ Len(strip(headline)) < Len(strip(h2))
          /\ build_tweet_text(h2, key_points).tier = "abbreviated"

\* C14: for a key-point list of more than 3 elements, build_tweet_text gives
\* the text and the tier it gives for the first 3 elements alone.
C14_PointsBeyondThreeIgnored ==
    (pc = "formatted" /\ Len(key_points) > 3) =>
        [text |-> tweet_text, tier |-> format_used]
            = build_tweet_text(headline, SubSeq(key_points, 1, 3))

\* C14 witness: the fourth key point alone would take the full form over 260
\* characters, and the full tier was returned without it.
C14_Witness ==
    /\ pc = "formatted"
    /\ Len(key_points) > 3
    /\ Len(key_points[4]) = PointUnit
    /\ Len(full_format(strip(headline), key_points)) > FULL_LIMIT
    /\ format_used = "full"
    /\ tweet_text = strip(FullForm)

\* the input of the scenario: a headline of 90 characters and three key
\* points of 90 characters each, formatted
Scenario ==
    /\ pc = "formatted"
    /\ Len(headline) = 90
    /\ strip(headline) = headline
    /\ key_points = ScenarioPoints

\* C15 (as claimed): for a headline of 90 characters and three key points of
\* 90 characters each, the full form is over 260, the abbreviated form is
\* over 280, and the minimal tier is returned with the news marker followed
\* by the headline as text.
C15_ScenarioIsMinimal ==
    Scenario =>
        /\ Len(FullForm) > FULL_LIMIT
        /\ Len(AbbreviatedForm) > TWEET_LIMIT
        /\ format_used = "minimal"
        /\ tweet_text = NEWS_MARK \o headline

\* C15 (amended): for that input the full form is over 260 and the
\* abbreviated form is within 280; the abbreviated tier is returned, with the
\* news marker, the headline, a blank line and the first key point behind its
\* bullet as text.
C15_ScenarioIsAbbreviated ==
    Scenario =>
        /\ Len(FullForm) > FULL_LIMIT
        /\ Len(AbbreviatedForm) <= TWEET_LIMIT
        /\ format_used = "abbreviated"
        /\ tweet_text = NEWS_MARK \o headline \o NL2 \o POINT_MARK \o key_points[1]

\* C15 witness: the scenario was formatted and the text has the headline and
\* one key point in it.
C15_Witness ==
    /\ Scenario
    /\ format_used = "abbreviated"
    /\ Len(tweet_text) > 2 * 90
    /\ Len(tweet_text) < 3 * 90

\* what the screenshot chain logs: the call of generate_screenshot, the chart
\* download and the steps of the browser capture (BrowserOps)
BrowserOps ==
    {"launch", "goto", "waitForSelector", "querySelector", "element.screenshot",
     "page.screenshot", "browser.close"}

ScreenshotOps == {"generate_screenshot", "chart.get"} \cup BrowserOps

OverlayCalls == CallsOf("generate_ai_image")

\* the overlay generator was called once and media_path is what it returned
OverlayAloneGaveMedia ==
    /\ Cardinality(OverlayCalls) = 1
    /\ \A i \in OverlayCalls :
          media_path = IF log[i].out = "ok" THEN overlay_path(now) ELSE None

\* use_image on and use_openai_image_only set
OnlyOverlay == opts.use_image /\ opts.use_openai_image_only

\* C16: with use_openai_image_only set and use_image on, run calls the
\* overlay generator and nothing else to get media: whatever
\* image_generation_type is, no screenshot is asked for, no chart downloaded
\* and no browser started, and media_path is what the overlay generator
\* returned, None included.
C16_OnlyFlagMeansOverlayOnly ==
    OnlyOverlay =>
        /\ \A i \in 1..Len(log) : log[i].op \notin ScreenshotOps
        /\ pc = "media" => OverlayAloneGaveMedia

\* C16 witness: the flag is set, image_generation_type asks for a screenshot,
\* the overlay generator returned None and run went on without media.
C16_Witness ==
    /\ OnlyOverlay
    /\ opts.image_generation_type \in {"screenshot", "both"}
    /\ pc = "media"
    /\ media_path = None
    /\ \E i \in OverlayCalls : log[i].out = "none"

\* mode both: use_image on, use_openai_image_only off, image_generation_type
\* both in any case
BothMode ==
    /\ opts.use_image
    /\ ~opts.use_openai_image_only
    /\ opts.image_generation_type \in {"both", "Both"}

\* C17: in mode both the overlay generator is called first; the screenshot
\* chain (chart download, then browser) runs if and only if the overlay
\* generator returned None; and when the overlay generator returned a file,
\* that file is media_path and is what the publisher uploads.
C17_BothTriesOverlayFirst ==
    BothMode =>
        /\ \A i \in 1..Len(log) :
              log[i].op \in ScreenshotOps =>
                  \E j \in OverlayCalls : j < i /\ log[j].out = "none"
        /\ \A j \in OverlayCalls :
              log[j].out = "none" => CallsOf("generate_screenshot") # {}
        /\ \A i \in CallsOf("chart.get"), j \in CallsOf("launch") : i < j
        /\ pc = "media" =>
              /\ Cardinality(OverlayCalls) = 1
              /\ \A j \in OverlayCalls :
                    log[j].out = "ok" =>
                        (media_path = overlay_path(now) /\ media_path \in files)
        /\ \A i \in CallsOf("media_upload"), j \in OverlayCalls :
              log[j].out = "ok" => log[i].arg = overlay_path(now)

\* C17 witness: in mode both the overlay generator returned None, the chart
\* download failed, the browser captured a screenshot, and the publisher
\* uploaded the screenshot.
C17_Witness ==
    /\ BothMode
    /\ pc = "done"
    /\ \E j \in OverlayCalls, c \in CallsOf("chart.get"), b \in CallsOf("page.screenshot"),
          u \in CallsOf("media_upload") :
          /\ j < c /\ c < b /\ b < u
          /\ log[j].out = "none"
          /\ log[c].out \in ChartFailures
          /\ log[b].out = "ok"
          /\ log[u].arg = screenshot_path(now)

\* mode screenshot with target crypto-chart
ChartMode ==
    /\ opts.use_image
    /\ ~opts.use_openai_image_only
    /\ opts.image_generation_type \in {"screenshot", "SCREENSHOT"}
    /\ opts.screenshot_target = "crypto-chart"

\* C18: in mode screenshot with target crypto-chart the chart download comes
\* first; the browser is launched only after the download failed; a
\* downloaded chart is returned with no browser launched; and when launch is
\* None after a failed download, the result is None.
C18_ChartDownloadFirst ==
    ChartMode =>
        /\ \A i \in 1..Len(log) :
              log[i].op \in BrowserOps =>
                  \E j \in CallsOf("chart.get") : j < i /\ log[j].out \in ChartFailures
        /\ pc = "media" =>
              /\ Cardinality(CallsOf("chart.get")) = 1
              /\ \A j \in CallsOf("chart.get") :
                    /\ log[j].out = "ok" =>
                          /\ media_path = chart_path(log[j].arg, now)
                          /\ media_path \in files
                          /\ CallsOf("launch") = {}
                    /\ (log[j].out \in ChartFailures /\ launch = None) =>
                          /\ media_path = None
                          /\ CallsOf("launch") = {}

\* C18 witness: the chart download failed, the browser was launched after it
\* and its screenshot is the media of the run.
C18_Witness ==
    /\ ChartMode
    /\ pc = "media"
    /\ media_path = screenshot_path(now)
    /\ \E j \in CallsOf("chart.get"), i \in CallsOf("launch") :
          j < i /\ log[j].out = "small" /\ log[i].out = "ok"

\* use_image on, use_openai_image_only off, and an image_generation_type
\* that is neither screenshot nor both in any case
OtherMode ==
    /\ opts.use_image
    /\ ~opts.use_openai_image_only
    /\ opts.image_generation_type \in
           GenTypes \ {"screenshot", "SCREENSHOT", "both", "Both"}

\* C19: with use_image on and use_openai_image_only off, every
\* image_generation_type that is not screenshot or both in some case, the
\* null and the empty one included, gets the overlay generator alone: no
\* screenshot is attempted, also when the overlay generator returns None.
C19_OtherTypesAreOverlay ==
    OtherMode =>
        /\ CallsOf("generate_screenshot") = {}
        /\ CallsOf("chart.get") = {}
        /\ CallsOf("launch") = {}
        /\ pc = "media" => OverlayAloneGaveMedia

\* C19 witness: image_generation_type is null or empty, the overlay generator
\* returned None, and run went on without media and without a screenshot.
C19_Witness ==
    /\ OtherMode
    /\ opts.image_generation_type \in {"", None}
    /\ pc = "media"
    /\ media_path = None
    /\ \E i \in OverlayCalls : log[i].out = "none"

\* the attempt to post with the media attached ended in an exception
MediaNotAttached ==
    \/ \E i \in CallsOf("media_upload") : log[i].out # "ok"
    \/ \E i \in CallsOf("create_tweet_media") : log[i].out # "ok"

\* the image host was not asked, or what it gave holds no URL
NoHostedUrl == \A i \in CallsOf("uploadme.post") : ~truthy(log[i].out)

\* C20 (as claimed): when the media could not be attached and no hosted URL
\* was obtained, post_tweet posts the original text, unmodified, once and
\* without media, and the record it returns has success = true and a null
\* imageUrl.  Stated for the runs in which post_tweet returned.
C20_TextOnlyFallback ==
    (pc = "done" /\ raised = None /\ MediaNotAttached /\ NoHostedUrl) =>
        /\ Cardinality(CallsOf("create_tweet")) = 1
        /\ \A j \in CallsOf("create_tweet") : log[j].arg = tweet_text
        /\ result.success = TRUE
        /\ result.tweetText = tweet_text
        /\ result.imageUrl = NoneT

\* C21: every browser that _capture_screenshot launched is closed before
\* _capture_screenshot returns or raises: after a launch that succeeded, the
\* browser is closed once, and nothing is done with it afterwards, whether
\* the capture succeeded, the navigation timed out, no selector matched, the
\* element capture failed, the file was undersized or missing, or anything
\* else raised.
C21_BrowserClosed ==
    \A i \in CallsOf("launch") :
        log[i].out = "ok" =>
            /\ Cardinality(CallsOf("browser.close")) = 1
            /\ \A j \in CallsOf("browser.close") : j > i /\ j = Len(log)

\* C21 witness: the navigation went through, no candidate of the selector
\* list became visible, the viewport capture raised, no path was returned,
\* and the browser was closed.
C21_Witness ==
    /\ pc = "media"
    /\ media_path = None
    /\ \E i \in CallsOf("launch") : log[i].out = "ok"
    /\ \E i \in CallsOf("goto") : log[i].out = "ok"
    /\ \A i \in CallsOf("waitForSelector") : log[i].out = "timeout"
    /\ \E i \in CallsOf("page.screenshot") : log[i].out = "exception"
    /\ log[Len(log)].op = "browser.close"

\* the selector list was probed and none of its candidates became visible
NoCandidateVisible ==
    /\ CallsOf("waitForSelector") # {}
    /\ \A i \in CallsOf("waitForSelector") : log[i].out = "timeout"

\* C26: when a selector list is supplied and none of its candidates becomes
\* visible within the probe timeout, no element-scoped capture is attempted
\* and the capture taken is the full-viewport capture.
C26_NoneVisibleMeansViewport ==
    NoCandidateVisible =>
        /\ CallsOf("element.screenshot") = {}
        /\ CallsOf("page.screenshot") # {}

\* the selector list generate_screenshot hands to the capture for the target
\* of the run
TargetSelector ==
    IF opts.screenshot_target \in {None, "", "crypto-chart"} THEN CHART_SELECTOR
    ELSE IF opts.screenshot_target = "crypto-ticker" THEN TICKER_SELECTOR
    ELSE ARTICLE_SELECTOR

\* the number of probes made up to the i-th call
ProbesUpTo(i) == Cardinality({j \in CallsOf("waitForSelector") : j <= i})

\* C27: the candidates of the selector list are probed one at a time in list
\* order: the k-th probe waits for the k-th candidate and follows the
\* (k-1)-th at once; every probe before the last timed out, so the probing
\* stops at the first candidate that becomes visible and later candidates
\* are never probed; and the element-scoped capture looks up and captures
\* exactly the candidate whose probe succeeded.
C27_ProbeInOrderStopAtFirst ==
    /\ \A i \in CallsOf("waitForSelector") :
        /\ ProbesUpTo(i) <= Len(selector_list(TargetSelector))
        /\ log[i].arg = selector_list(TargetSelector)[ProbesUpTo(i)]
        /\ ProbesUpTo(i) > 1 =>
            /\ log[i - 1].op = "waitForSelector"
            /\ log[i - 1].out = "timeout"
    /\ \A i \in CallsOf("waitForSelector") :
        log[i].out = "visible" =>
            \A j \in CallsOf("querySelector") \cup CallsOf("element.screenshot") :
                j > i /\ log[j].arg = log[i].arg

\* C27 witness: of the article selectors the second and the fourth would
\* become visible; "article" timed out, "main" was found, nothing else was
\* probed, and the element captured is "main".
C27_Witness ==
    /\ pc = "media"
    /\ Cardinality(CallsOf("waitForSelector")) = 2
    /\ \E i \in CallsOf("waitForSelector") :
        log[i].arg = <<"article">> /\ log[i].out = "timeout"
    /\ \E i \in CallsOf("waitForSelector") :
        log[i].arg = <<"main">> /\ log[i].out = "visible"
    /\ \E i \in CallsOf("element.screenshot") :
        log[i].arg = <<"main">> /\ log[i].out = "ok"
    /\ CallsOf("page.screenshot") = {}
    /\ media_path = screenshot_path(now)

\* the places of the known symbols the item mentions
Mentioned(item) ==
    {k \in 1..Len(CRYPTO_SYMBOLS) :
        contains(str_upper(combined_text(item)), CRYPTO_SYMBOLS[k].chars)}

\* the items that mention a known symbol
Mentioning == {i \in 1..Len(news_items) : Mentioned(news_items[i]) # {}}

\* the symbol of the earliest item that mentions any known symbol, being the
\* first one in table order that the item mentions; BTC when no item does
EarliestMention ==
    IF Mentioning = {} THEN "BTC"
    ELSE CRYPTO_SYMBOLS[MinOf(Mentioned(news_items[MinOf(Mentioning)]))].name

\* C28: for the crypto-chart target the chart is asked for the symbol of the
\* earliest news item that mentions any known symbol (the first symbol in
\* table order found in that item), and for BTC when no item mentions one;
\* a later item never overrides a symbol found in an earlier item.
C28_EarliestItemDecides ==
    \A i \in CallsOf("chart.get") : log[i].arg = EarliestMention

\* C25: every temporary file written during a run by the chart download, the
\* browser capture or the overlay generation no longer exists when that run
\* returns, whether the media was published, discarded in a dry run, or
\* rejected by the media acquisition itself.
C25_NoTempFileLeft ==
    (pc = "done" /\ raised = None) => files = {}

\* the calls of the media step
MediaOps ==
    {"generate_ai_image", "run_coroutine_threadsafe", "future.result"}
        \cup ScreenshotOps

\* every call of the first kind comes before every call of the second
AllBefore(first, second) ==
    \A i, j \in 1..Len(log) :
        (log[i].op \in first /\ log[j].op \in second) => i < j

\* the summary and the formatting are done, each once, and the text and the
\* tier are the formatter's outputs for the summarizer's outputs
SummarizedAndFormatted ==
    /\ Cardinality(CallsOf("openai.create")) = 1
    /\ \A i \in CallsOf("openai.create") :
        /\ headline = summarize_news(news_items, log[i].out).headline
        /\ key_points = summarize_news(news_items, log[i].out).key_points
    /\ tweet_text = build_tweet_text(headline, key_points).text
    /\ format_used = build_tweet_text(headline, key_points).tier

\* C24: in a run with at least one news item and dry_run off, the steps
\* happen in the order summarize, format, acquire media, publish, each at
\* most once and none before the previous one finished: the media step
\* starts from a finished summary and formatting, the publisher is called
\* only after the media step returned, and the record returned carries the
\* headline and key points of the summarizer and the tier of the formatter.
C24_StepsInOrder ==
    (news_items # <<>> /\ ~opts.dry_run) =>
        /\ \A op \in {"openai.create", "generate_ai_image", "generate_screenshot",
                      "create_tweet_media", "create_tweet"} :
            Cardinality(CallsOf(op)) <= 1
        /\ AllBefore({"openai.create"}, MediaOps \cup PublisherOps)
        /\ AllBefore(MediaOps, PublisherOps)
        /\ pc \in {"fetched", "summarized"} =>
            \A i \in 1..Len(log) : log[i].op \notin MediaOps \cup PublisherOps
        /\ pc = "formatted" =>
            /\ SummarizedAndFormatted
            /\ \A i \in 1..Len(log) : log[i].op \notin MediaOps \cup PublisherOps
        /\ pc \in {"media", "blocked"} =>
            /\ SummarizedAndFormatted
            /\ \A i \in 1..Len(log) : log[i].op \notin PublisherOps
        /\ (pc = "done" /\ result # NoRecord) =>
            /\ SummarizedAndFormatted
            /\ CallsOf("create_tweet_media") \cup CallsOf("create_tweet") # {}
            /\ result.headline = headline
            /\ result.keyPoints = key_points
            /\ result.format = format_used
            /\ result.tweetText # <<>>

\* C24 witness: a run that summarised, formatted with key points, took a
\* screenshot and published it with the media, and returned the record.
C24_Witness ==
    /\ pc = "done"
    /\ ~opts.dry_run
    /\ result # NoRecord
    /\ result.success
    /\ result.keyPoints # <<>>
    /\ result.format = "full"
    /\ CallsOf("openai.create") # {}
    /\ CallsOf("generate_screenshot") # {}
    /\ \E i \in CallsOf("create_tweet_media") : log[i].out = "ok"

\* the longest hosted URL the claim is about
C29_MaxUrl == TWEET_LIMIT - 4

\* C29: on the forbidden-upload path with a hosted URL of at most 276
\* characters: if the original text is longer than 280 - len(url) - 1, the
\* posted text is the first 280 - len(url) - 4 characters of the original
\* followed by "...", a newline and the URL, 280 characters in all; if the
\* original text is at most 280 - len(url) - 1 characters long, it is kept
\* unmodified and followed by a newline and the URL.
C29_TruncatedToLimit ==
    \A i \in CallsOf("uploadme.post"), j \in CallsOf("create_tweet") :
        (truthy(log[i].out) /\ Len(log[i].out[1]) <= C29_MaxUrl) =>
            LET url == log[i].out[1]
                room == TWEET_LIMIT - Len(url) - 1
            IN  IF Len(tweet_text) > room
                THEN /\ log[j].arg = SubSeq(tweet_text, 1, room - 3) \o ELLIPSIS
                                        \o <<"\n">> \o url
                     /\ Len(log[j].arg) = TWEET_LIMIT
                ELSE log[j].arg = tweet_text \o <<"\n">> \o url

\* C29 witness: a hosted URL of 276 characters and a text of 4, one more
\* than the room: the post is "...", the newline and the URL.
C29_Witness ==
    /\ pc = "done"
    /\ Len(tweet_text) = 4
    /\ \E i \in CallsOf("uploadme.post") :
        truthy(log[i].out) /\ Len(log[i].out[1]) = C29_MaxUrl
    /\ \E j \in CallsOf("create_tweet") :
        /\ log[j].out = "ok"
        /\ SubSeq(log[j].arg, 1, 4) = ELLIPSIS \o <<"\n">>
        /\ Len(log[j].arg) = TWEET_LIMIT

\* C29 witness of the other case: the text fits beside a short URL and is
\* posted whole
C29_WitnessKept ==
    /\ pc = "done"
    /\ \E i \in CallsOf("uploadme.post"), j \in CallsOf("create_tweet") :
        /\ truthy(log[i].out)
        /\ Len(tweet_text) = TWEET_LIMIT - Len(log[i].out[1]) - 1
        /\ Len(tweet_text) > 0
        /\ log[j].arg = tweet_text \o <<"\n">> \o log[i].out[1]

\* the posts created on the platform
PostsCreated ==
    {i \in CallsOf("create_tweet_media") \cup CallsOf("create_tweet") :
        log[i].out = "ok"}

Terminated == pc = "done"

\* C23: assuming every collaborator call returns or raises, every run
\* terminates.
C23_RunTerminates == <>Terminated

\* the calls a run may make once (the create-post calls: once with media,
\* once text-only)
OnceOps ==
    {"openai.create", "chart.get", "launch", "media_upload", "uploadme.post",
     "create_tweet_media", "create_tweet"}

\* the part of C23 that is about retries: no outbound call is made twice in
\* a run
C23_NoRetry == \A op \in OnceOps : Cardinality(CallsOf(op)) <= 1

\* C22: two pipeline invocations running concurrently in the same process
\* never obtain the same temporary media file path, so the deletion of a
\* media file by one invocation never removes the file the other has
\* generated and not yet published: while an invocation holds a path between
\* its media step and its publish step, the other does not hold the same
\* path, and the file is still there.
C22_PathsNeverShared ==
    /\ (pc = "media" /\ peer.pc = "media" /\ media_path # None) =>
            peer.media_path # media_path
    /\ (pc = "media" /\ media_path # None) => media_path \in files

\* the media attempt raised the forbidden error
MediaForbidden ==
    \E i \in CallsOf("media_upload") \cup CallsOf("create_tweet_media") :
        log[i].out = "Forbidden"

\* the image host was asked and returned a URL
HostedUrl == \E i \in CallsOf("uploadme.post") : truthy(log[i].out)

\* the id of the last create-post call that succeeded
LastPostId ==
    IF \E i \in CallsOf("create_tweet") : log[i].out = "ok" THEN "id_text"
    ELSE "id_media"

\* C31: every record returned by post_tweet has a non-null imageUrl exactly
\* when the media attempt raised the forbidden error and the image-host
\* upload returned a URL, and then tweetText ends with a newline followed by
\* imageUrl; in every other case tweetText is the input text unchanged; and
\* tweetId is the id returned by the last successful create-post call.
C31_RecordInvariant ==
    (pc = "done" /\ raised = None) =>
        /\ (result.imageUrl # NoneT) <=> (MediaForbidden /\ HostedUrl)
        /\ (MediaForbidden /\ HostedUrl) =>
                endswith(result.tweetText, <<"\n">> \o result.imageUrl[1])
        /\ ~(MediaForbidden /\ HostedUrl) => result.tweetText = tweet_text
        /\ PostsCreated # {}
        /\ result.tweetId = LastPostId

\* media acquisition is about to start in a thread whose event loop runs
CalledFromRunningLoop == pc = "formatted" /\ loop # None

\* media acquisition is over: it returned or raised
MediaStepOver == pc \in {"media", "done"}

\* C32: generate_screenshot terminates when it is called from a thread
\* whose event loop is already running: the capture scheduled on that loop
\* is not waited for forever.
C32_CaptureReturnsUnderRunningLoop == CalledFromRunningLoop ~> MediaStepOver

\* there is no asset to publish: use_image is off, media acquisition
\* returned None, or the path it returned no longer exists
NoAsset == ~opts.use_image \/ media_path = None \/ media_path \notin files

\* C33: when there is no asset to publish as the publish step starts, the
\* step makes no platform media upload and no image-host upload: all it does
\* is one text-only create-post call, with the formatted text unchanged, and
\* the success record carries that post's id and a null imageUrl.
C33_NoAssetTextOnly ==
    [][(pc = "media" /\ ~opts.dry_run /\ NoAsset /\ pc' = "done") =>
        /\ \E out \in {"ok", "Exception"} :
                log' = log \o <<Call("create_tweet", tweet_text, out)>>
        /\ files' = files
        /\ raised' = None =>
            /\ result'.success
            /\ result'.tweetId = "id_text"
            /\ result'.tweetText = tweet_text
            /\ result'.imageUrl = NoneT]_vars

\* C33 witness: media acquisition returned a path, the file is gone when
\* post_tweet looks for it, and the text was posted alone.
C33_Witness ==
    /\ pc = "done"
    /\ opts.use_image
    /\ media_path # None
    /\ media_path \notin files
    /\ log = <<Call("create_tweet", tweet_text, "ok")>>
    /\ result # NoRecord
    /\ result.tweetId = "id_text"

\* the first n entries of a list (all of it when it is shorter)
FirstN(xs, n) == SubSeq(xs, 1, IF Len(xs) < n THEN Len(xs) ELSE n)

\* C34: when the text-generation call returns text, the headline and the key
\* points fall back independently: a parsed headline with no parsed bullets
\* gives the parsed headline and the titles of the first three items; parsed
\* bullets with no parsed headline give the first item's title and the
\* parsed bullets, in order of appearance and capped at the first 3; and on
\* every path at most 3 key points are returned.
C34_IndependentFallbacks ==
    pc = "summarized" =>
        /\ Len(key_points) <= 3
        /\ \A i \in CallsOf("openai.create") :
            log[i].out.kind = "content" =>
                LET lines == splitlines(log[i].out.content)
                    h == parse_headline(lines, <<>>)
                    kp == parse_points(lines)
                IN  /\ (h # <<>> /\ kp = <<>>) =>
                            /\ headline = h
                            /\ key_points = FirstN(titles(news_items), 3)
                    /\ (h = <<>> /\ kp # <<>>) =>
                            /\ headline = news_items[1].title
                            /\ key_points = FirstN(kp, 3)

\* C34 witness: five items, a text of four bullets and no headline line: the
\* headline is the first title and the key points are the first three
\* bullets.
C34_Witness ==
    /\ pc = "summarized"
    /\ Len(news_items) = MaxNews
    /\ news_items[1].title = <<"A">>
    /\ headline = <<"A">>
    /\ key_points = <<<<"p">>, <<"q">>, <<"r">>>>
    /\ \E i \in CallsOf("openai.create") :
        /\ log[i].out.kind = "content"
        /\ Len(parse_points(splitlines(log[i].out.content))) = 4

\* C34 witness of the other fallback: a headline line and no bullet: the
\* parsed headline with the titles of the first three of five items
C34_WitnessTitles ==
    /\ pc = "summarized"
    /\ Len(news_items) = MaxNews
    /\ headline = <<"H", "i">>
    /\ key_points = FirstN(titles(news_items), 3)
    /\ \E i \in CallsOf("openai.create") :
        /\ log[i].out.kind = "content"
        /\ parse_points(splitlines(log[i].out.content)) = <<>>

====
